---- MODULE Spec2Model ----
(***************************************************************************)
(* A model of asebiten: the loader that turns an Aseprite sprite sheet     *)
(* (frames plus frame tags with a direction) into the map from tag name to *)
(* frame list, and the Animation that plays such a map: Update's frame     *)
(* loop with its end callbacks, SetTag, SetFrame, Restart, Pause, Resume,  *)
(* Toggle, OnEnd and Clone.                                                *)
(*                                                                         *)
(* Go slices are 0-based, TLA+ sequences 1-based: the frame at Go index i  *)
(* is element i + 1 of the sequence that models the slice.                 *)
(*                                                                         *)
(* The repository holds two builds of Animation. Update is modelled from   *)
(* the one that adds the int64 DeltaMillis of the global clock; the other  *)
(* runs the same loop on a float64 elapsedMillis and adds 1000/TPS. Maps   *)
(* are heap objects named by a reference, so that two Animations holding   *)
(* the same map differ from two holding equal maps.                        *)
(***************************************************************************)
EXTENDS Integers, Sequences, FiniteSets, TLC

\* ------------------------------------------------------------------ bounds

\* The largest number of frames of a sheet handed to the loader.
MaxFrames == 4
\* The largest number of frame tags a sheet declares.
MaxTags == 2
\* The largest number of milliseconds one Update call adds (DeltaMillis).
MaxDelta == 6
\* The number of frames of the sheets that are played.
PlayFrames == 3

\* Frame durations in milliseconds.
Durations == {1, 2}
\* Tag names: the empty tag and the names frame tags and SetTag use.
TagNames == {"", "walk", "idle"}
\* The values of FrameTag.Direction; any other string plays forward.
Directions == {"forward", "reverse", "pingpong", "pingpong_reverse"}
\* The two Animation values of a program: the loaded one and its clone.
Anims == {"a", "c"}
\* What a Callback does with the *Animation it is handed: "nil" is the nil
\* func, "noop" returns at once, "setTagWalk" calls a.SetTag("walk").
Callbacks == {"nil", "noop", "setTagWalk"}
\* The callbacks that call back into the Animation: a.SetTag("walk"),
\* a.SetTag(""), a.Restart() and a.SetFrame(1).
CallingCallbacks == {"setTagWalk", "setTagEmpty", "restart", "setFrame1"}

VARIABLES
    sheet,           \* the decoded SpriteSheet: Frames and Meta.FrameTags
    tables,          \* heap of map[string][]AniFrame objects, by reference
    images,          \* number of ebiten.Image objects created so far
    cbMaps,          \* heap of map[string]Callback objects, by reference
    live,            \* live[x]: the Animation x has been constructed
    paused,          \* Animation.paused
    currTag,         \* Animation.currTag
    currFrame,       \* Animation.currFrame
    accumMillis,     \* Animation.accumMillis (elapsedMillis in the TPS build)
    callbacks,       \* Animation.callbacks: a reference into cbMaps, 0 is nil
    FramesByTagName, \* Animation.FramesByTagName: a reference into tables
    pc,              \* "start", "idle", "loop" (inside Update's for), "panic"
    upd,             \* the Animation whose Update is running
    err,             \* the error the last call returned
    last,            \* the operation that completed last
    call,            \* what the running or last call started from
    wraps,           \* per tag: wraps of the frame index in that call
    fired,           \* per tag: callback invocations in that call
    ran,             \* the tag and the callback of that call's last invocation
    registered       \* per Animation and tag: the callback OnEnd was given last

vars == <<sheet, tables, images, cbMaps, live, paused, currTag, currFrame,
          accumMillis, callbacks, FramesByTagName, pc, upd, err, last, call,
          wraps, fired, ran, registered>>

\* ------------------------------------------------------------------ Go maps

\* m[k] of a Go map whose values are slices: a missing key reads as nil.
Get(m, k) == IF k \in DOMAIN m THEN m[k] ELSE <<>>

\* m[k] = v
Put(m, k, v) == [x \in (DOMAIN m) \cup {k} |-> IF x = k THEN v ELSE m[x]]

\* make(map[...]...)
EmptyMap == [x \in {} |-> 0]

\* ------------------------------------------------------------------ loader

AniFrame(idx, img, dur) ==
    [FrameIdx |-> idx, Image |-> img, DurationMillis |-> dur]

\* frames[i], frames[j] = frames[j], frames[i]
Swap(frames, i, j) ==
    [x \in 1..Len(frames) |->
        IF x = i + 1 THEN frames[j + 1]
        ELSE IF x = j + 1 THEN frames[i + 1]
        ELSE frames[x]]

\* A reverse that stops one swap short.
reverseBoundShort(frames) == (Len(frames) - 1) \div 2

\* The number of swaps of reverse: i < len(frames)/2.
reverseBound(frames) == Len(frames) \div 2

RECURSIVE reverseLoop(_, _)
reverseLoop(frames, i) ==
    IF i < reverseBound(frames)
    THEN reverseLoop(Swap(frames, i, (Len(frames) - 1) - i), i + 1)
    ELSE frames

reverse(frames) == reverseLoop(frames, 0)

\* A pingpong that starts at the last frame and so repeats it.
pingpongStartLast(frames) == Len(frames) - 1

\* Where pingpong's loop starts: i := len(frames) - 2.
pingpongStart(frames) == Len(frames) - 2

RECURSIVE pingpongLoop(_, _)
pingpongLoop(frames, i) ==
    IF i >= 1
    THEN pingpongLoop(Append(frames, frames[i + 1]), i - 1)
    ELSE frames

pingpong(frames) == pingpongLoop(frames, pingpongStart(frames))

\* for idx, frame := range sheet.Frames: one new image per frame.
RECURSIVE loadNoTagsLoop(_, _, _, _)
loadNoTagsLoop(sh, idx, byTagName, nimg) ==
    IF idx >= Len(sh.Frames)
    THEN [byTagName |-> byTagName, images |-> nimg]
    ELSE loadNoTagsLoop(sh, idx + 1,
            Put(byTagName, "",
                Append(Get(byTagName, ""),
                       AniFrame(idx, nimg + 1, sh.Frames[idx + 1].Duration))),
            nimg + 1)

\* A loadNoTags that starts at the second frame.
loadNoTagsSkipFirst(sh, nimg) == loadNoTagsLoop(sh, 1, EmptyMap, nimg)

\* byTagName := make(map[string][]AniFrame), then the loop over every frame.
loadNoTags(sh, nimg) == loadNoTagsLoop(sh, 0, EmptyMap, nimg)

\* for i := tag.From; i <= tag.To; i++: sheet.Frames[i] panics out of range.
RECURSIVE tagRangeLoop(_, _, _, _)
tagRangeLoop(sh, tag, i, st) ==
    IF i > tag.To THEN st
    ELSE IF i < 0 \/ i >= Len(sh.Frames) THEN [st EXCEPT !.panicked = TRUE]
    ELSE LET hit == i \in DOMAIN st.imgCache
             img == IF hit THEN st.imgCache[i] ELSE st.images + 1
         IN  tagRangeLoop(sh, tag, i + 1,
                [st EXCEPT
                    !.images = IF hit THEN @ ELSE @ + 1,
                    !.imgCache = IF hit THEN @ ELSE Put(@, i, img),
                    !.byTagName = Put(@, tag.Name,
                        Append(Get(@, tag.Name),
                               AniFrame(i, img, sh.Frames[i + 1].Duration)))])

\* switch tag.Direction
applyDirection(tag, byTagName) ==
    IF tag.Direction = "reverse"
    THEN Put(byTagName, tag.Name, reverse(Get(byTagName, tag.Name)))
    ELSE IF tag.Direction = "pingpong"
    THEN Put(byTagName, tag.Name, pingpong(Get(byTagName, tag.Name)))
    ELSE IF tag.Direction = "pingpong_reverse"
    THEN Put(byTagName, tag.Name, reverse(pingpong(Get(byTagName, tag.Name))))
    ELSE byTagName

\* for _, tag := range sheet.Meta.FrameTags
RECURSIVE loadTagsLoop(_, _, _)
loadTagsLoop(sh, k, st) ==
    IF k > Len(sh.FrameTags) THEN st
    ELSE LET tag == sh.FrameTags[k]
             r   == tagRangeLoop(sh, tag, tag.From, st)
         IN  IF r.panicked THEN r
             ELSE loadTagsLoop(sh, k + 1,
                    [r EXCEPT !.byTagName = applyDirection(tag, @)])

loadWithTags(sh, nimg) ==
    LET base == loadNoTags(sh, nimg)
    IN  loadTagsLoop(sh, 1,
            [byTagName |-> base.byTagName, images |-> base.images,
             imgCache |-> EmptyMap, panicked |-> FALSE])

\* The outcome of LoadAnimation's choice between the two loaders: both
\* return the nil error on every path.
loadFrames(sh, nimg) ==
    IF Len(sh.FrameTags) = 0
    THEN LET r == loadNoTags(sh, nimg)
         IN  [byTagName |-> r.byTagName, images |-> r.images,
              panicked |-> FALSE, err |-> "nil"]
    ELSE LET r == loadWithTags(sh, nimg)
         IN  [byTagName |-> r.byTagName, images |-> r.images,
              panicked |-> r.panicked, err |-> "nil"]

\* ------------------------------------------------------------------ sheets

FrameTag(name, from, to, dir) ==
    [Name |-> name, From |-> from, To |-> to, Direction |-> dir]

\* The ranges of the frame tags of a sheet of n frames: from the first or
\* the second frame up to the last frame.
Ranges(n) == {r \in (0..1) \X {n - 1} : r[1] <= r[2]}

TagsOf(n) ==
    {FrameTag(name, r[1], r[2], dir) :
        name \in {"", "walk"}, r \in Ranges(n), dir \in Directions}

SeqsUpTo(S, n) == UNION {[1..k -> S] : k \in 0..n}

\* The durations of n frames: all the same, or alternating.
LoadDurations(n) ==
    {[i \in 1..n |-> [Duration |-> d]] : d \in Durations}
        \cup {[i \in 1..n |-> [Duration |-> 1 + (i % 2)]]}

\* The sheets of n frames handed to the loader.
LoadSheets(n) ==
    {[Frames |-> fs, FrameTags |-> ts] :
        fs \in LoadDurations(n), ts \in SeqsUpTo(TagsOf(n), MaxTags)}

\* The sheets that are played: every assignment of durations to PlayFrames
\* frames, the tag "walk" on all frames but the first.
PlaySheets ==
    {[Frames |-> [i \in 1..PlayFrames |-> [Duration |-> ds[i]]],
      FrameTags |-> <<FrameTag("walk", 1, PlayFrames - 1, "forward")>>] :
        ds \in [1..PlayFrames -> Durations]}

\* ------------------------------------------------------------------ state

NoCall == [anim |-> "", arg |-> 0, tag |-> "", frame |-> 0, accum |-> 0,
           paused |-> FALSE, callbacks |-> <<>>, afterRestart |-> FALSE]
NoCount == [t \in TagNames |-> 0]
\* The counts of one call stop at CountCap, which no call of a sheet whose
\* durations are positive reaches.
CountCap == MaxDelta + 3
countUp(n) == IF n < CountCap THEN n + 1 ELSE n
NoRan == [tag |-> "", callback |-> "nil"]
\* No OnEnd call has named any tag.
NoneRegistered == [t \in TagNames |-> "none"]

InitWith(sheets) ==
    /\ sheet \in sheets
    /\ tables = <<>>
    /\ images = 0
    /\ cbMaps = <<>>
    /\ live = [x \in Anims |-> FALSE]
    /\ paused = [x \in Anims |-> FALSE]
    /\ currTag = [x \in Anims |-> ""]
    /\ currFrame = [x \in Anims |-> 0]
    /\ accumMillis = [x \in Anims |-> 0]
    /\ callbacks = [x \in Anims |-> 0]
    /\ FramesByTagName = [x \in Anims |-> 0]
    /\ pc = "start"
    /\ upd = ""
    /\ err = "nil"
    /\ last = ""
    /\ call = NoCall
    /\ wraps = NoCount
    /\ fired = NoCount
    /\ ran = NoRan
    /\ registered = [x \in Anims |-> NoneRegistered]

\* LoadAnimation: the frames by tag name, then NewAnimation on them, or the
\* loader's error and no Animation. The sheet is one LoadSpriteSheet decoded
\* without error.
LoadAnimation ==
    /\ pc = "start"
    /\ LET r == loadFrames(sheet, images)
       IN  /\ images' = r.images
           /\ IF r.panicked
              THEN /\ pc' = "panic"
                   /\ UNCHANGED <<tables, cbMaps, live, callbacks,
                                  FramesByTagName, err>>
              ELSE IF r.err # "nil"
              THEN /\ pc' = "idle"
                   /\ err' = r.err
                   /\ UNCHANGED <<tables, cbMaps, live, callbacks,
                                  FramesByTagName>>
              ELSE /\ pc' = "idle"
                   /\ err' = "nil"
                   /\ tables' = Append(tables, r.byTagName)
                   /\ cbMaps' = Append(cbMaps, EmptyMap)
                   /\ live' = [live EXCEPT !["a"] = TRUE]
                   /\ callbacks' = [callbacks EXCEPT !["a"] = Len(cbMaps) + 1]
                   /\ FramesByTagName' =
                        [FramesByTagName EXCEPT !["a"] = Len(tables) + 1]
    /\ paused' = [paused EXCEPT !["a"] = FALSE]
    /\ currTag' = [currTag EXCEPT !["a"] = ""]
    /\ currFrame' = [currFrame EXCEPT !["a"] = 0]
    /\ last' = "LoadAnimation"
    /\ UNCHANGED <<sheet, accumMillis, upd, call, wraps, fired, ran,
                   registered>>

InitLoad == \E n \in 1..MaxFrames : InitWith(LoadSheets(n))
NextLoad == LoadAnimation
SpecLoad == InitLoad /\ [][NextLoad]_vars

\* Every pair of From and To of a frame tag of a sheet of n frames, those
\* before the first frame and past the last one included.
AnyRanges(n) == ((0 - 1)..n) \X ((0 - 1)..n)

AnyTagsOf(n) ==
    {FrameTag("walk", r[1], r[2], dir) : r \in AnyRanges(n), dir \in Directions}

\* The sheets of n frames whose frame tag "walk" has any range, alone or
\* after a tag "idle" on every frame.
AnySheets(n) ==
    {[Frames |-> fs, FrameTags |-> ts] :
        fs \in LoadDurations(n),
        ts \in {<<t>> : t \in AnyTagsOf(n)}
                \cup {<<FrameTag("idle", 0, n - 1, "forward"), t>> :
                        t \in AnyTagsOf(n)}}

InitLoadAny == \E n \in 1..MaxFrames : InitWith(AnySheets(n))
SpecLoadAny == InitLoadAny /\ [][NextLoad]_vars

\* ------------------------------------------------------------------ Animation

\* a.FramesByTagName: a nil map reads as an empty one.
TableOf(x) ==
    IF FramesByTagName[x] = 0 THEN EmptyMap ELSE tables[FramesByTagName[x]]

\* a.callbacks
CallbacksOf(x) == IF callbacks[x] = 0 THEN EmptyMap ELSE cbMaps[callbacks[x]]

\* a.callbacks[tag]: a missing key reads as the nil func.
CallbackFor(x, tag) ==
    IF tag \in DOMAIN CallbacksOf(x) THEN CallbacksOf(x)[tag] ELSE "nil"

\* a.FramesByTagName[a.currTag]
CurrFrames(x) == Get(TableOf(x), currTag[x])

\* A Frame that reads past the end of the current tag's frames.
InRangeUnchecked(x) == TRUE

\* Indexing a.FramesByTagName[a.currTag][a.currFrame] does not panic.
InRange(x) == 0 <= currFrame[x] /\ currFrame[x] < Len(CurrFrames(x))

\* a.FramesByTagName[a.currTag][a.currFrame].DurationMillis
CurrDuration(x) == CurrFrames(x)[currFrame[x] + 1].DurationMillis

\* What the operation op with argument arg on x started from.
Started(x, op, arg) ==
    /\ last' = op
    /\ call' = [anim |-> x, arg |-> arg, tag |-> currTag[x],
                frame |-> currFrame[x], accum |-> accumMillis[x],
                paused |-> paused[x], callbacks |-> CallbacksOf(x),
                afterRestart |->
                    op = "Update" /\ last = "Restart" /\ call.anim = x]
    /\ wraps' = NoCount
    /\ fired' = NoCount
    /\ ran' = NoRan

Callable(x) == pc = "idle" /\ live[x]

Pause(x) ==
    /\ Callable(x)
    /\ paused' = [paused EXCEPT ![x] = TRUE]
    /\ Started(x, "Pause", 0)
    /\ err' = "nil"
    /\ UNCHANGED <<sheet, tables, images, cbMaps, live, currTag, currFrame,
                   accumMillis, callbacks, FramesByTagName, pc, upd, registered>>

Resume(x) ==
    /\ Callable(x)
    /\ paused' = [paused EXCEPT ![x] = FALSE]
    /\ Started(x, "Resume", 0)
    /\ err' = "nil"
    /\ UNCHANGED <<sheet, tables, images, cbMaps, live, currTag, currFrame,
                   accumMillis, callbacks, FramesByTagName, pc, upd, registered>>

Toggle(x) ==
    /\ Callable(x)
    /\ paused' = [paused EXCEPT ![x] = ~paused[x]]
    /\ Started(x, "Toggle", 0)
    /\ err' = "nil"
    /\ UNCHANGED <<sheet, tables, images, cbMaps, live, currTag, currFrame,
                   accumMillis, callbacks, FramesByTagName, pc, upd, registered>>

\* A SetFrame that accepts the index one past the last frame.
setFrameRejectsLax(x, idx) == idx < 0 \/ Len(CurrFrames(x)) < idx

\* idx < 0 || len(a.FramesByTagName[a.currTag]) <= idx
setFrameRejects(x, idx) == idx < 0 \/ Len(CurrFrames(x)) <= idx

SetFrame(x, idx) ==
    /\ Callable(x)
    /\ IF setFrameRejects(x, idx)
       THEN /\ err' = "frame index out of bounds"
            /\ UNCHANGED currFrame
       ELSE /\ err' = "nil"
            /\ currFrame' = [currFrame EXCEPT ![x] = idx]
    /\ Started(x, "SetFrame", idx)
    /\ UNCHANGED <<sheet, tables, images, cbMaps, live, paused, currTag,
                   accumMillis, callbacks, FramesByTagName, pc, upd, registered>>

Restart(x) ==
    /\ Callable(x)
    /\ currFrame' = [currFrame EXCEPT ![x] = 0]
    /\ Started(x, "Restart", 0)
    /\ err' = "nil"
    /\ UNCHANGED <<sheet, tables, images, cbMaps, live, paused, currTag,
                   accumMillis, callbacks, FramesByTagName, pc, upd, registered>>

\* A SetTag that resets the frame on every call.
setTagFrameAlways(curr, frame, tag) == 0

\* if a.currTag != tag { a.currFrame = 0 }: the frame SetTag(tag) leaves an
\* Animation at that is at currTag curr and currFrame frame.
setTagFrame(curr, frame, tag) == IF curr # tag THEN 0 ELSE frame

SetTag(x, tag) ==
    /\ Callable(x)
    /\ currFrame' =
         [currFrame EXCEPT ![x] = setTagFrame(currTag[x], currFrame[x], tag)]
    /\ currTag' = [currTag EXCEPT ![x] = tag]
    /\ Started(x, "SetTag", tag)
    /\ err' = "nil"
    /\ UNCHANGED <<sheet, tables, images, cbMaps, live, paused, accumMillis,
                   callbacks, FramesByTagName, pc, upd, registered>>

\* An OnEnd that keeps the callback a tag already has.
onEndStoreFirst(m, tag, callback) ==
    IF tag \in DOMAIN m THEN m ELSE Put(m, tag, callback)

\* a.callbacks[tag] = callback
onEndStore(m, tag, callback) == Put(m, tag, callback)

\* OnEnd: an assignment to an entry of a nil map panics.
OnEnd(x, tag, callback) ==
    /\ Callable(x)
    /\ IF callbacks[x] = 0
       THEN /\ pc' = "panic"
            /\ UNCHANGED <<cbMaps, registered>>
       ELSE /\ cbMaps' = [cbMaps EXCEPT
                 ![callbacks[x]] = onEndStore(@, tag, callback)]
            /\ registered' = [registered EXCEPT ![x][tag] = callback]
            /\ UNCHANGED pc
    /\ Started(x, "OnEnd", 0)
    /\ err' = "nil"
    /\ UNCHANGED <<sheet, tables, images, live, paused, currTag, currFrame,
                   accumMillis, callbacks, FramesByTagName, upd>>

\* An Update that runs whether the animation is paused or not.
updateSkipsNever(x) == FALSE

\* if a.paused { return }
updateSkips(x) == paused[x]

\* Update up to its loop: a paused animation returns at once, a running one
\* adds the time of this tick.
UpdateBegin(x, delta) ==
    /\ Callable(x)
    /\ IF updateSkips(x)
       THEN UNCHANGED <<accumMillis, pc, upd>>
       ELSE /\ accumMillis' = [accumMillis EXCEPT ![x] = @ + delta]
            /\ pc' = "loop"
            /\ upd' = x
    /\ Started(x, "Update", delta)
    /\ err' = "nil"
    /\ UNCHANGED <<sheet, tables, images, cbMaps, live, paused, currTag,
                   currFrame, callbacks, FramesByTagName, registered>>

\* A loop that leaves a frame one millisecond late.
frameDueLate(accum, dur) == accum > dur + 1

\* A loop that leaves a frame as soon as its duration is reached.
frameDueEarly(accum, dur) == accum >= dur

\* The loop's condition: a.accumMillis > ...DurationMillis
frameDue(accum, dur) == accum > dur

\* A loop that runs the callback after every frame.
callbackDueEachFrame(next, callback) == callback # "nil"

\* if a.currFrame != 0 || a.callbacks[a.currTag] == nil { continue }
callbackDue(next, callback) == ~(next # 0 \/ callback = "nil")

\* A loop that keeps the frames of the tag the call started at.
loopFramesKept(x) == Get(TableOf(x), call.tag)

\* a.FramesByTagName[a.currTag], read anew by the loop's condition and by
\* each statement of its body.
loopFrames(x) == CurrFrames(x)

\* The tag a callback leaves the Animation at that it was handed at tag.
callbackTag(cb, tag) ==
    IF cb = "setTagWalk" THEN "walk"
    ELSE IF cb = "setTagEmpty" THEN ""
    ELSE tag

\* The frame a callback leaves the Animation x at that it was handed at tag
\* and frame next: what SetTag, Restart and SetFrame(1) do to it.
callbackFrame(x, cb, tag, next) ==
    IF cb \in {"setTagWalk", "setTagEmpty"}
    THEN setTagFrame(tag, next, callbackTag(cb, tag))
    ELSE IF cb = "restart" THEN 0
    ELSE IF cb = "setFrame1" /\ ~setFrameRejects(x, 1) THEN 1
    ELSE next

\* One evaluation of the loop's condition and, when it holds, one run of
\* its body, the callback's run included.
UpdateLoop ==
    /\ pc = "loop"
    /\ LET x      == upd
           frames == loopFrames(x)
       IN
       IF ~(0 <= currFrame[x] /\ currFrame[x] < Len(frames))
       THEN /\ pc' = "panic"
            /\ UNCHANGED <<accumMillis, currFrame, currTag, upd, wraps, fired,
                           ran>>
       ELSE IF ~frameDue(accumMillis[x],
                         frames[currFrame[x] + 1].DurationMillis)
       THEN /\ pc' = "idle"
            /\ upd' = ""
            /\ UNCHANGED <<accumMillis, currFrame, currTag, wraps, fired, ran>>
       ELSE LET tag  == currTag[x]
                next == (currFrame[x] + 1) % Len(frames)
                cb   == CallbackFor(x, tag)
                run  == callbackDue(next, cb)
            IN  /\ accumMillis' = [accumMillis EXCEPT
                     ![x] = @ - frames[currFrame[x] + 1].DurationMillis]
                /\ wraps' = [wraps EXCEPT
                     ![tag] = IF currFrame[x] = Len(frames) - 1
                              THEN countUp(@) ELSE @]
                /\ fired' = [fired EXCEPT
                     ![tag] = IF run THEN countUp(@) ELSE @]
                /\ ran' = IF run THEN [tag |-> tag, callback |-> cb] ELSE ran
                /\ IF run
                   THEN /\ currFrame' = [currFrame EXCEPT
                             ![x] = callbackFrame(x, cb, tag, next)]
                        /\ currTag' = [currTag EXCEPT
                             ![x] = callbackTag(cb, tag)]
                   ELSE /\ currFrame' = [currFrame EXCEPT ![x] = next]
                        /\ UNCHANGED currTag
                /\ UNCHANGED <<pc, upd>>
    /\ UNCHANGED <<sheet, tables, images, cbMaps, live, paused, callbacks,
                   FramesByTagName, err, last, call, registered>>

\* A Clone whose callbacks field is the source's map itself.
cloneCallbacksShared(x) == callbacks[x]

\* maps.Clone(a.callbacks): a new map, or nil for a nil map.
cloneCallbacks(x) == IF callbacks[x] = 0 THEN 0 ELSE Len(cbMaps) + 1

\* c := a.Clone()
Clone ==
    /\ Callable("a")
    /\ ~live["c"]
    /\ live' = [live EXCEPT !["c"] = TRUE]
    /\ cbMaps' = IF callbacks["a"] = 0 THEN cbMaps
                 ELSE Append(cbMaps, cbMaps[callbacks["a"]])
    /\ callbacks' = [callbacks EXCEPT !["c"] = cloneCallbacks("a")]
    /\ FramesByTagName' = [FramesByTagName EXCEPT !["c"] = FramesByTagName["a"]]
    /\ currTag' = [currTag EXCEPT !["c"] = currTag["a"]]
    /\ currFrame' = [currFrame EXCEPT !["c"] = currFrame["a"]]
    /\ paused' = [paused EXCEPT !["c"] = paused["a"]]
    /\ accumMillis' = [accumMillis EXCEPT !["c"] = 0]
    /\ registered' = [registered EXCEPT !["c"] = registered["a"]]
    /\ Started("a", "Clone", 0)
    /\ err' = "nil"
    /\ UNCHANGED <<sheet, tables, images, pc, upd>>

\* c := NewFlyweightAnimation(a): the source's frames and the zero value of
\* every other field, the callbacks map among them.
NewFlyweightAnimation ==
    /\ Callable("a")
    /\ ~live["c"]
    /\ live' = [live EXCEPT !["c"] = TRUE]
    /\ FramesByTagName' = [FramesByTagName EXCEPT !["c"] = FramesByTagName["a"]]
    /\ callbacks' = [callbacks EXCEPT !["c"] = 0]
    /\ currTag' = [currTag EXCEPT !["c"] = ""]
    /\ currFrame' = [currFrame EXCEPT !["c"] = 0]
    /\ paused' = [paused EXCEPT !["c"] = FALSE]
    /\ accumMillis' = [accumMillis EXCEPT !["c"] = 0]
    /\ registered' = [registered EXCEPT !["c"] = NoneRegistered]
    /\ Started("a", "NewFlyweightAnimation", 0)
    /\ err' = "nil"
    /\ UNCHANGED <<sheet, tables, images, cbMaps, pc, upd>>

\* a.Frame(): the read of a.FramesByTagName[a.currTag][a.currFrame] panics
\* when the index is no frame of the current tag.
Frame(x) ==
    /\ Callable(x)
    /\ pc' = IF InRange(x) THEN pc ELSE "panic"
    /\ Started(x, "Frame", 0)
    /\ err' = "nil"
    /\ UNCHANGED <<sheet, tables, images, cbMaps, live, paused, currTag,
                   currFrame, accumMillis, callbacks, FramesByTagName, upd,
                   registered>>

\* The tags OnEnd registers callbacks for, and the indices SetFrame is given.
OnEndTags == {"", "walk"}
FrameArgs == (0 - 1)..PlayFrames

\* The calls a program makes on the Animation x, with arguments from args.
CallsWith(x, args) ==
    \/ Pause(x)
    \/ Resume(x)
    \/ Toggle(x)
    \/ Restart(x)
    \/ \E tag \in args.tags : SetTag(x, tag)
    \/ \E idx \in args.frames : SetFrame(x, idx)
    \/ \E tag \in args.onEndTags, callback \in args.callbacks :
            OnEnd(x, tag, callback)
    \/ \E delta \in args.deltas : UpdateBegin(x, delta)

AllArgs == [tags |-> TagNames, frames |-> FrameArgs, onEndTags |-> OnEndTags,
            callbacks |-> Callbacks, deltas |-> 0..MaxDelta]

Calls(x) == CallsWith(x, AllArgs)

Init == InitWith(PlaySheets)

Next ==
    \/ LoadAnimation
    \/ Calls("a")
    \/ UpdateLoop

Spec == Init /\ [][Next]_vars

\* A program that clones the loaded Animation and then calls both, with
\* fewer arguments for each call.
CloneArgs == [tags |-> {"", "walk"}, frames |-> {1}, onEndTags |-> {""},
              callbacks |-> {"noop"}, deltas |-> {2}]

\* The played sheets whose frames all have the same duration.
CloneSheets ==
    {sh \in PlaySheets :
        \A i \in 1..PlayFrames : sh.Frames[i].Duration = sh.Frames[1].Duration}

InitClone == InitWith(CloneSheets)

NextClone ==
    \/ LoadAnimation
    \/ Clone
    \/ \E x \in Anims : CallsWith(x, CloneArgs)
    \/ UpdateLoop

SpecClone == InitClone /\ [][NextClone]_vars

\* A program that makes the second Animation by Clone or by
\* NewFlyweightAnimation.
NextCopy ==
    \/ LoadAnimation
    \/ Clone
    \/ NewFlyweightAnimation
    \/ \E x \in Anims : CallsWith(x, CloneArgs)
    \/ UpdateLoop

SpecCopy == InitClone /\ [][NextCopy]_vars

\* A program that plays sheets whose frames last 0 or 1 milliseconds. Update,
\* once in its loop, goes on running it: the loop is weakly fair.
ZeroDurations == {0, 1}

ZeroSheets ==
    {[Frames |-> [i \in 1..PlayFrames |-> [Duration |-> ds[i]]],
      FrameTags |-> <<FrameTag("walk", 1, PlayFrames - 1, "forward")>>] :
        ds \in [1..PlayFrames -> ZeroDurations]}

ZeroArgs == [tags |-> {"", "walk"}, frames |-> {1}, onEndTags |-> {""},
             callbacks |-> {"noop"}, deltas |-> {0, 1, MaxDelta}]

InitZero == InitWith(ZeroSheets)

NextZero ==
    \/ LoadAnimation
    \/ CallsWith("a", ZeroArgs)
    \/ UpdateLoop

SpecZero == InitZero /\ [][NextZero]_vars /\ WF_vars(UpdateLoop)

\* A program whose callbacks call back into the Animation, and whose SetTag
\* calls name tags that the map holds.
CallingArgs == [tags |-> {"", "walk"}, frames |-> FrameArgs,
                onEndTags |-> OnEndTags, callbacks |-> CallingCallbacks,
                deltas |-> {0, MaxDelta \div 2, MaxDelta}]

NextCalling ==
    \/ LoadAnimation
    \/ CallsWith("a", CallingArgs)
    \/ UpdateLoop

SpecCalling == Init /\ [][NextCalling]_vars

\* A program that clones the Animation and calls both, its callbacks calling
\* back into them and its SetTag calls naming tags that the map holds.
ValidArgs == [tags |-> {"", "walk"}, frames |-> {PlayFrames - 1, PlayFrames},
              onEndTags |-> {""}, callbacks |-> {"setTagWalk", "setFrame1"},
              deltas |-> {2}]

NextValid ==
    \/ LoadAnimation
    \/ Clone
    \/ \E x \in Anims : CallsWith(x, ValidArgs)
    \/ UpdateLoop

SpecValid == InitClone /\ [][NextValid]_vars

\* A program whose SetTag calls name any tag, "idle" among them, which the
\* map of a played sheet does not hold, or holds with no frames: a frame tag
\* whose From is past its To adds no frame, and "reverse" stores the empty
\* list under its name.
MisuseSheets ==
    CloneSheets \cup
        {[sh EXCEPT !.FrameTags = Append(@, FrameTag("idle", 1, 0, "reverse"))] :
            sh \in CloneSheets}

MisuseArgs == [tags |-> TagNames, frames |-> {0, 1}, onEndTags |-> {""},
               callbacks |-> {"noop", "setTagWalk"}, deltas |-> {0, MaxDelta}]

InitMisuse == InitWith(MisuseSheets)

NextMisuse ==
    \/ LoadAnimation
    \/ CallsWith("a", MisuseArgs)
    \/ Frame("a")
    \/ UpdateLoop

SpecMisuse == InitMisuse /\ [][NextMisuse]_vars

\* ------------------------------------------------------------------ loader claims

\* LoadAnimation has returned the Animation "a".
Loaded == pc = "idle" /\ last = "LoadAnimation"

\* Frame tag k is the only one of its name, and its name is not the empty
\* tag's: its entry of the map holds the frames of its range alone.
Alone(k) ==
    /\ sheet.FrameTags[k].Name # ""
    /\ \A j \in 1..Len(sheet.FrameTags) :
            j # k => sheet.FrameTags[j].Name # sheet.FrameTags[k].Name

RangeLen(k) == sheet.FrameTags[k].To - sheet.FrameTags[k].From + 1

\* The frames of a list as source indices, and whether each frame carries
\* the duration of the sheet's frame of that index.
FrameIdxs(frames) == [i \in 1..Len(frames) |-> frames[i].FrameIdx]

DurationsKept(frames) ==
    \A i \in 1..Len(frames) :
        frames[i].DurationMillis = sheet.Frames[frames[i].FrameIdx + 1].Duration

\* f0..fn followed by f(n-1)..f1, as source indices, for a range of len
\* frames starting at from.
PingpongOf(from, len) ==
    [j \in 1..(IF len <= 2 THEN len ELSE 2 * len - 2) |->
        IF j <= len THEN from + (j - 1) ELSE from + (2 * len - j) - 1]

\* fn..f0 followed by f1..f(n-1), as source indices, for a range of len
\* frames ending at to.
ReversePingpongOf(to, len) ==
    [j \in 1..(IF len <= 2 THEN len ELSE 2 * len - 2) |->
        IF j <= len THEN to - (j - 1) ELSE to - ((2 * len - j) - 1)]

\* C4: the sequence built for a frame tag with direction "pingpong_reverse"
\* is the range reversed and then ping-pong expanded: fn..f0 followed by
\* f1..f(n-1).
C4_PingpongReverseIsReverseThenPingpong ==
    Loaded =>
        \A k \in 1..Len(sheet.FrameTags) :
            (Alone(k) /\ sheet.FrameTags[k].Direction = "pingpong_reverse") =>
                FrameIdxs(Get(TableOf("a"), sheet.FrameTags[k].Name))
                    = ReversePingpongOf(sheet.FrameTags[k].To, RangeLen(k))

\* C5: the sequence built for a frame tag with direction "pingpong" over the
\* range f0..fn is f0..fn followed by f(n-1)..f1, each frame with its own
\* duration; a range of one or two frames is left as it is.
C5_PingpongSequence ==
    Loaded =>
        \A k \in 1..Len(sheet.FrameTags) :
            (Alone(k) /\ sheet.FrameTags[k].Direction = "pingpong") =>
                LET built == Get(TableOf("a"), sheet.FrameTags[k].Name)
                IN  /\ FrameIdxs(built)
                            = PingpongOf(sheet.FrameTags[k].From, RangeLen(k))
                    /\ RangeLen(k) <= 2 => Len(built) = RangeLen(k)
                    /\ DurationsKept(built)

\* A "pingpong" tag over four frames has been loaded: A,B,C,D,C,B.
C5_Witness ==
    /\ Loaded
    /\ \E k \in 1..Len(sheet.FrameTags) :
        /\ Alone(k)
        /\ sheet.FrameTags[k].Direction = "pingpong"
        /\ RangeLen(k) = 4
        /\ FrameIdxs(Get(TableOf("a"), sheet.FrameTags[k].Name))
                = <<0, 1, 2, 3, 2, 1>>

\* C6: the sequence built for a frame tag with direction "reverse" over a
\* range of n frames has n frames, and its frame at position i is the range's
\* frame at position n-1-i.
C6_ReverseSequence ==
    Loaded =>
        \A k \in 1..Len(sheet.FrameTags) :
            (Alone(k) /\ sheet.FrameTags[k].Direction = "reverse") =>
                LET built == Get(TableOf("a"), sheet.FrameTags[k].Name)
                IN  /\ Len(built) = RangeLen(k)
                    /\ \A i \in 0..(RangeLen(k) - 1) :
                            built[i + 1].FrameIdx
                                = sheet.FrameTags[k].From + (RangeLen(k) - 1 - i)
                    /\ DurationsKept(built)

\* "reverse" tags over an even and over an odd number of frames have been
\* loaded: D,C,B,A and C,B,A.
C6_Witness ==
    /\ Loaded
    /\ \E k \in 1..Len(sheet.FrameTags) :
        /\ Alone(k)
        /\ sheet.FrameTags[k].Direction = "reverse"
        /\ RangeLen(k) \in {3, 4}
        /\ FrameIdxs(Get(TableOf("a"), sheet.FrameTags[k].Name))
                \in {<<3, 2, 1, 0>>, <<3, 2, 1>>}

\* The frames are one per frame of the sheet, in the sheet's order: frame i
\* of the sheet at position i, with its index and its duration.
FullFrameList(frames) ==
    /\ Len(frames) = Len(sheet.Frames)
    /\ \A i \in 0..(Len(sheet.Frames) - 1) :
        /\ frames[i + 1].FrameIdx = i
        /\ frames[i + 1].DurationMillis = sheet.Frames[i + 1].Duration

\* C13: a sheet with at least one frame and no frame tags loads into a map
\* whose only key is the empty tag, and that tag's frames are one per frame
\* of the sheet in the sheet's order, frame i with index i and its duration.
C13_NoTagsFullList ==
    (Loaded /\ Len(sheet.Frames) >= 1 /\ Len(sheet.FrameTags) = 0) =>
        /\ DOMAIN TableOf("a") = {""}
        /\ FullFrameList(TableOf("a")[""])

\* A sheet of MaxFrames frames of two durations and no tags has been loaded.
C13_Witness ==
    /\ Loaded
    /\ Len(sheet.FrameTags) = 0
    /\ Len(sheet.Frames) = MaxFrames
    /\ sheet.Frames[1].Duration # sheet.Frames[2].Duration
    /\ Len(Get(TableOf("a"), "")) = MaxFrames

\* C14: whatever frame tags the sheet declares, of any names, repeated names
\* and the empty name included, the loaded map has the empty tag, and its
\* frames are the sheet's frames, one each, in the sheet's order.
C14_EmptyTagIsEveryFrame ==
    Loaded =>
        /\ "" \in DOMAIN TableOf("a")
        /\ FullFrameList(TableOf("a")[""])

\* From or To of the frame tag is not the index of a frame of the sheet.
OutOfRange(tag) ==
    \/ tag.From < 0 \/ tag.From >= Len(sheet.Frames)
    \/ tag.To < 0 \/ tag.To >= Len(sheet.Frames)

\* C15: when From or To of a frame tag lies outside the sheet's frames,
\* LoadAnimation returns an error to its caller and neither a map of frames
\* nor an Animation.
C15_OutOfRangeReturnsError ==
    (last = "LoadAnimation"
        /\ \E k \in 1..Len(sheet.FrameTags) : OutOfRange(sheet.FrameTags[k])) =>
        /\ pc = "idle"
        /\ err # "nil"
        /\ ~live["a"]
        /\ tables = <<>>

\* C21: the frames of one index share one image over every tag of the map,
\* the empty tag included, and the loader has made one image for each index:
\* as many images as the sheet has frames.
C21_OneImagePerIndex ==
    Loaded =>
        /\ \A t \in DOMAIN TableOf("a"), u \in DOMAIN TableOf("a") :
            \A i \in 1..Len(TableOf("a")[t]), j \in 1..Len(TableOf("a")[u]) :
                TableOf("a")[t][i].FrameIdx = TableOf("a")[u][j].FrameIdx
                    => TableOf("a")[t][i].Image = TableOf("a")[u][j].Image
        /\ images = Len(sheet.Frames)

\* ------------------------------------------------------------------ playback claims

\* The tag has a callback registered on x: OnEnd stored a func that is not nil.
Registered(x, tag) == CallbackFor(x, tag) # "nil"

\* An Update call on an animation that was not paused has returned.
Advanced == pc = "idle" /\ last = "Update" /\ ~call.paused

\* The frame list of the tag the last call started at.
CallFrames == Get(TableOf(call.anim), call.tag)

\* This step of Update's loop takes the index of x from the last frame of
\* the tag back to 0.
WrapsNow(x, tag) ==
    /\ pc = "loop" /\ upd = x /\ currTag[x] = tag
    /\ InRange(x)
    /\ accumMillis[x] > CurrDuration(x)
    /\ currFrame[x] = Len(CurrFrames(x)) - 1

\* In the running or last Update call, a tag with a callback has had it
\* invoked once per wrap, a tag without one never.
C1_OncePerWrap ==
    (last = "Update" /\ pc \in {"idle", "loop"}) =>
        \A tag \in TagNames :
            fired[tag] = IF Registered(call.anim, tag) THEN wraps[tag] ELSE 0

\* A step of the loop invokes the callback of a tag exactly when the index
\* wraps on that tag and the tag has a callback, and then only the duration
\* of the frame just left has been taken off the accumulated time.
C1_AtTheWrap ==
    pc = "loop" =>
        \A tag \in TagNames :
            IF WrapsNow(upd, tag) /\ Registered(upd, tag)
            THEN /\ fired'[tag] = fired[tag] + 1
                 /\ accumMillis'[upd] = accumMillis[upd] - CurrDuration(upd)
                 /\ pc' = "loop"
            ELSE fired'[tag] = fired[tag]

\* C1: within one Update call on an unpaused animation the callback of a tag
\* is invoked once for each wrap of the frame index from the tag's last frame
\* to 0, however many wraps the call makes, and at no other moment; it is
\* invoked in the loop step that wraps, before the rest of the accumulated
\* time is used.
C1_CallbackOncePerWrap == [](C1_OncePerWrap) /\ [][C1_AtTheWrap]_vars

\* One Update call has wrapped a tag with a callback more than once.
C1_Witness ==
    /\ Advanced
    /\ \E tag \in TagNames :
        Registered(call.anim, tag) /\ wraps[tag] >= 2 /\ fired[tag] >= 2

\* All frames of a list have the duration d.
Uniform(frames, d) ==
    \A i \in 1..Len(frames) : frames[i].DurationMillis = d

\* The callback of the tag leaves the tag current.
KeepsTag(x, tag) ==
    \/ CallbackFor(x, tag) = "noop"
    \/ CallbackFor(x, tag) = "setTagWalk" /\ tag = "walk"

\* The last call was Update(k*D*N + r), k >= 1, on an unpaused animation at
\* frame 0 with no accumulated time, on a tag of N frames of duration D each
\* that has a callback.
C2_Case(d) ==
    /\ Advanced
    /\ call.frame = 0
    /\ call.accum = 0
    /\ Len(CallFrames) > 0
    /\ Uniform(CallFrames, d)
    /\ KeepsTag(call.anim, call.tag)
    /\ call.arg >= d * Len(CallFrames)

C2_K(d) == call.arg \div (d * Len(CallFrames))
C2_R(d) == call.arg % (d * Len(CallFrames))

\* C2 as stated: Update(k*D*N + r) invokes the tag's callback exactly k
\* times, for every r in 0..D*N-1.
C2_FiresKTimes ==
    \A d \in Durations : C2_Case(d) => fired[call.tag] = C2_K(d)

\* C2: Update(k*D*N + r) invokes the tag's callback exactly k times when
\* r >= 1 and exactly k - 1 times when r = 0: a frame is left only once the
\* accumulated time exceeds its duration.
C2_FiresKTimesUnlessExact ==
    \A d \in Durations :
        C2_Case(d) =>
            fired[call.tag] = IF C2_R(d) = 0 THEN C2_K(d) - 1 ELSE C2_K(d)

\* Update(k*D*N + D*N - 1) with k >= 2 has invoked the callback k times.
C2_Witness ==
    \E d \in Durations :
        /\ C2_Case(d)
        /\ C2_K(d) >= 2
        /\ C2_R(d) = d * Len(CallFrames) - 1
        /\ fired[call.tag] = C2_K(d)

\* C3 as stated: after Update on an unpaused animation the accumulated time
\* is at least 0 and less than the current frame's duration.
C3_AccumBelowDuration ==
    Advanced =>
        /\ 0 <= accumMillis[call.anim]
        /\ accumMillis[call.anim] < CurrDuration(call.anim)

\* C3: after Update on an unpaused animation the accumulated time is at
\* least 0 and at most the duration of the frame that is then current.
C3_AccumAtMostDuration ==
    Advanced =>
        /\ InRange(call.anim)
        /\ 0 <= accumMillis[call.anim]
        /\ accumMillis[call.anim] <= CurrDuration(call.anim)

\* Update has returned with the accumulated time equal to the duration of
\* the current frame, after moving on from another frame.
C3_Witness ==
    /\ Advanced
    /\ call.arg > 0
    /\ currFrame[call.anim] # call.frame
    /\ accumMillis[call.anim] = CurrDuration(call.anim)

\* C7: SetTag(name) makes name the current tag; the frame index is 0 when
\* name differs from the tag that was current and is left as it was when
\* name is the current tag.
C7_SetTagResetsFrame ==
    (pc = "idle" /\ last = "SetTag") =>
        /\ currTag[call.anim] = call.arg
        /\ currFrame[call.anim] =
                IF call.arg # call.tag THEN 0 ELSE call.frame
        /\ accumMillis[call.anim] = call.accum

\* SetTag has switched to "walk" from another tag that was at frame 2.
C7_Witness ==
    /\ pc = "idle" /\ last = "SetTag"
    /\ call.tag = "" /\ call.frame = 2
    /\ currTag[call.anim] = "walk" /\ currFrame[call.anim] = 0

\* Restart has set the frame index to 0 and left the rest of the animation.
C8_RestartKeeps ==
    (pc = "idle" /\ last = "Restart") =>
        /\ currFrame[call.anim] = 0
        /\ accumMillis[call.anim] = call.accum
        /\ currTag[call.anim] = call.tag
        /\ paused[call.anim] = call.paused
        /\ CallbacksOf(call.anim) = call.callbacks

\* The last call was Update with no time added, right after Restart on the
\* same animation, and it has returned.
C8_ZeroAfterRestart ==
    pc = "idle" /\ last = "Update" /\ call.arg = 0 /\ call.afterRestart

\* Tag, frame index and accumulated time are what the last call started from.
C8_Same ==
    /\ currTag[call.anim] = call.tag
    /\ currFrame[call.anim] = call.frame
    /\ accumMillis[call.anim] = call.accum

\* C8 as stated: Restart sets the frame index to 0 and leaves accumulated
\* time, tag, paused flag and callbacks; an Update that adds no time right
\* after Restart changes neither tag, frame index nor accumulated time.
C8_RestartThenZeroChangesNothing ==
    /\ C8_RestartKeeps
    /\ C8_ZeroAfterRestart => C8_Same

\* C8: Restart sets the frame index to 0 and leaves accumulated time, tag,
\* paused flag and callbacks; an Update that adds no time right after Restart
\* changes neither tag, frame index nor accumulated time when the animation
\* is paused or its accumulated time is at most the duration of the tag's
\* first frame, and otherwise leaves that frame and takes its duration off.
C8_RestartThenZeroWithinFirstFrame ==
    /\ C8_RestartKeeps
    /\ C8_ZeroAfterRestart =>
        IF call.paused \/ call.accum <= CallFrames[1].DurationMillis
        THEN C8_Same
        ELSE accumMillis[call.anim] < call.accum

\* An Update that adds no time has returned right after a Restart that moved
\* an unpaused animation with accumulated time back from a later frame.
C8_Witness ==
    /\ C8_ZeroAfterRestart
    /\ ~call.paused
    /\ call.accum > 0
    /\ C8_Same

\* C10: SetFrame(index) returns the out-of-range error and changes nothing
\* when index < 0 or index >= the length of the current tag's frame list, a
\* missing tag's being 0; otherwise it returns nil and sets the frame index to
\* index, leaving tag and accumulated time.
C10_SetFrameChecksRange ==
    (pc = "idle" /\ last = "SetFrame") =>
        /\ currTag[call.anim] = call.tag
        /\ accumMillis[call.anim] = call.accum
        /\ paused[call.anim] = call.paused
        /\ CallbacksOf(call.anim) = call.callbacks
        /\ IF call.arg < 0 \/ call.arg >= Len(CallFrames)
           THEN err = "frame index out of bounds"
                /\ currFrame[call.anim] = call.frame
           ELSE err = "nil" /\ currFrame[call.anim] = call.arg

\* SetFrame has refused the index one past the last frame of a tag's list.
C10_Witness ==
    /\ pc = "idle" /\ last = "SetFrame"
    /\ Len(CallFrames) > 0
    /\ call.arg = Len(CallFrames)
    /\ err = "frame index out of bounds"

\* The Animation of the last call is at the tag, the frame, the accumulated
\* time and the callbacks the call started from.
CallKept ==
    /\ currTag[call.anim] = call.tag
    /\ currFrame[call.anim] = call.frame
    /\ accumMillis[call.anim] = call.accum
    /\ CallbacksOf(call.anim) = call.callbacks

\* An Update on a paused animation returns at once and changes nothing,
\* whatever the time it was to add: no frame is left, no callback runs.
C11_PausedUpdateKeeps ==
    (last = "Update" /\ call.paused) =>
        /\ pc = "idle"
        /\ CallKept
        /\ paused[call.anim]
        /\ wraps = NoCount /\ fired = NoCount /\ ran = NoRan

\* Pause, Resume and Toggle set, clear and flip paused and change nothing else.
C11_FlagOnly ==
    (last \in {"Pause", "Resume", "Toggle"}) =>
        /\ pc = "idle"
        /\ CallKept
        /\ paused[call.anim] = (IF last = "Pause" THEN TRUE
                                ELSE IF last = "Resume" THEN FALSE
                                ELSE ~call.paused)

\* The Update that follows Resume adds its time to the accumulated time the
\* animation holds, and enters the loop at the frame it holds.
C11_ResumeContinues ==
    (last = "Resume" /\ last' = "Update" /\ call'.anim = call.anim) =>
        /\ pc' = "loop"
        /\ accumMillis'[call.anim] = accumMillis[call.anim] + call'.arg
        /\ currFrame'[call.anim] = currFrame[call.anim]
        /\ currTag'[call.anim] = currTag[call.anim]

\* C11: while the animation is paused an Update with any delta changes
\* neither the tag, the frame index nor the accumulated time and runs no
\* callback; Pause, Resume and Toggle change the paused flag alone; the
\* Update after Resume goes on from the accumulated time and the frame that
\* were held while paused.
C11_PauseFreezes ==
    [](C11_PausedUpdateKeeps /\ C11_FlagOnly) /\ [][C11_ResumeContinues]_vars

\* A paused animation in the middle of a tag, holding accumulated time, has
\* been given an Update with the largest delta.
C11_Witness ==
    /\ last = "Update" /\ call.paused
    /\ call.arg = MaxDelta
    /\ call.accum > 0
    /\ call.frame > 0

\* The callback the last OnEnd call for the tag handed x: the nil func when
\* no call named the tag.
LastRegistered(x, tag) ==
    IF registered[x][tag] = "none" THEN "nil" ELSE registered[x][tag]

\* A tag has one callback at a time: the one its last OnEnd call gave.
C12_LastWins ==
    \A x \in Anims, tag \in TagNames :
        live[x] => CallbackFor(x, tag) = LastRegistered(x, tag)

\* A step of the loop runs a callback only when it wraps the current tag and
\* the last OnEnd call for that tag gave a func that is not nil; the callback
\* it runs is that func, and no count of another tag moves.
C12_RunsLastRegistered ==
    pc = "loop" =>
        LET tag == currTag[upd] IN
        IF WrapsNow(upd, tag) /\ LastRegistered(upd, tag) # "nil"
        THEN /\ ran' = [tag |-> tag, callback |-> LastRegistered(upd, tag)]
             /\ fired' = [fired EXCEPT ![tag] = @ + 1]
        ELSE /\ ran' = ran
             /\ fired' = fired

\* C12: a tag has at most one end callback, the one its last OnEnd call
\* registered; the wrap of a tag invokes that callback, invokes nothing when
\* that call gave nil or no call was made, and never a callback registered
\* for another tag.
C12_OneCallbackPerTag ==
    [](C12_LastWins) /\ [][C12_RunsLastRegistered]_vars

\* An Update has wrapped the empty tag and run the callback registered for it
\* last, while "walk" held another callback that did not run.
C12_Witness ==
    /\ Advanced
    /\ call.tag = ""
    /\ ran = [tag |-> "", callback |-> "noop"]
    /\ LastRegistered(call.anim, "walk") = "setTagWalk"
    /\ fired["walk"] = 0
    /\ fired[""] >= 2

\* C17: every Update call returns, whatever time it adds and whatever the
\* durations of the frames, zero durations included: a call that has entered
\* the loop leaves it.
C17_UpdateReturns == (pc = "loop") ~> (pc # "loop")

\* A step of Update's loop works on the tag and the frame the Animation is at
\* when the step is taken, the ones a callback of an earlier step of the same
\* call left it at: it takes the duration of that frame off the accumulated
\* time and moves the index within that tag's frames, or it returns.
C19_StepReadsCurrent ==
    pc = "loop" =>
        LET x      == upd
            frames == Get(TableOf(x), currTag[x])
            dur    == frames[currFrame[x] + 1].DurationMillis
            next   == (currFrame[x] + 1) % Len(frames)
        IN  /\ InRange(x)
            /\ IF accumMillis[x] > dur
               THEN /\ pc' = "loop"
                    /\ accumMillis'[x] = accumMillis[x] - dur
                    /\ IF ran' = ran /\ fired' = fired
                       THEN currTag'[x] = currTag[x] /\ currFrame'[x] = next
                       ELSE /\ next = 0
                            /\ currTag'[x] =
                                 callbackTag(ran'.callback, currTag[x])
                            /\ currFrame'[x] =
                                 callbackFrame(x, ran'.callback, currTag[x], 0)
               ELSE /\ pc' = "idle"
                    /\ accumMillis'[x] = accumMillis[x]
                    /\ currTag'[x] = currTag[x]
                    /\ currFrame'[x] = currFrame[x]

\* When Update returns, the index is a frame of the tag the Animation is at,
\* and the time left over does not exceed that frame's duration.
C19_AtReturn ==
    Advanced =>
        /\ InRange(call.anim)
        /\ accumMillis[call.anim] <= CurrDuration(call.anim)

\* C19: when a callback run by Update calls SetTag with another tag,
\* SetFrame or Restart on the same Animation, the rest of the Update call
\* uses up the accumulated time against the frames and durations of the tag
\* and index the callback left, never those the call started with, and the
\* index is within the current tag's frames when Update returns.
C19_CallbackMovesAnimation ==
    [](C19_AtReturn) /\ [][C19_StepReadsCurrent]_vars

\* An Update that started on the empty tag ran a callback that called
\* SetTag("walk") and then played "walk" to its wrap, on a sheet whose first
\* frame and whose first frame of "walk" differ in duration.
C19_Witness ==
    /\ Advanced
    /\ call.tag = ""
    /\ ran = [tag |-> "", callback |-> "setTagWalk"]
    /\ currTag[call.anim] = "walk"
    /\ wraps["walk"] >= 1
    /\ sheet.Frames[1].Duration # sheet.Frames[2].Duration

\* ------------------------------------------------------------------ misuse claims

\* The call started at a tag the map does not hold, or holds with no frames.
CallTagEmpty == Len(CallFrames) = 0

\* SetTag returns without failing whatever the tag, and leaves it current.
C20_SetTagAccepts ==
    (last = "SetTag") =>
        /\ pc = "idle"
        /\ err = "nil"
        /\ currTag[call.anim] = call.arg

\* An Update that starts at a tag without frames leaves no frame and runs no
\* callback: paused it returns at once, otherwise it is in the loop or has
\* panicked there.
C20_UpdateOnEmptyTag ==
    (last = "Update" /\ CallTagEmpty) =>
        /\ currTag[call.anim] = call.tag
        /\ currFrame[call.anim] = call.frame
        /\ fired = NoCount /\ wraps = NoCount
        /\ IF call.paused
           THEN pc = "idle" /\ accumMillis[call.anim] = call.accum
           ELSE pc \in {"loop", "panic"}

\* Reading the current frame at a tag without frames panics.
C20_FrameOnEmptyTag ==
    (last = "Frame" /\ CallTagEmpty) => pc = "panic"

\* A loop step at a tag without frames panics, and only SetTag takes an
\* Animation away from such a tag.
C20_EmptyTagStays ==
    \A x \in Anims :
        (live[x] /\ Len(CurrFrames(x)) = 0) =>
            /\ (pc = "loop" /\ upd = x) => pc' = "panic"
            /\ currTag'[x] # currTag[x] => last' = "SetTag"

\* C20 as the claim has it: every Update call made while the current tag has
\* no frames ends in an error (here: the panic of the index expression).
C20_EveryUpdateFails ==
    (last = "Update" /\ CallTagEmpty /\ pc # "loop") => pc = "panic"

\* C20: SetTag with a name the map does not hold never fails; from then on,
\* while the current tag has no frames, every Update on the unpaused
\* Animation and every read of the current frame panics on the index
\* expression and leaves tag and frame as they were, an Update on the paused
\* Animation returns at once without effect, and the tag stays as it is
\* until SetTag is called again.
C20_EveryUnpausedUpdateFails ==
    /\ [](C20_SetTagAccepts /\ C20_UpdateOnEmptyTag /\ C20_FrameOnEmptyTag)
    /\ [][C20_EmptyTagStays]_vars

\* An Update that adds time has panicked on the unpaused Animation at the
\* tag "idle", which the map holds with no frames.
C20_Witness ==
    /\ pc = "panic" /\ last = "Update"
    /\ call.tag = "idle" /\ ~call.paused
    /\ call.arg > 0
    /\ "idle" \in DOMAIN TableOf(call.anim)
    /\ CallTagEmpty

\* ------------------------------------------------------------------ clone claims

\* The state Clone gives each Animation of its own.
Fields(x) ==
    <<currTag[x], currFrame[x], accumMillis[x], paused[x], CallbacksOf(x)>>

\* A step of a call on x: the call itself or a step of its Update's loop.
StepOf(x) == CallsWith(x, CloneArgs) \/ (UpdateLoop /\ upd = x)

C9_Independent ==
    live["c"] =>
        /\ \A x \in Anims : StepOf(x) => \A y \in Anims \ {x} :
                Fields(y)' = Fields(y)
        /\ tables' = tables
        /\ FramesByTagName' = FramesByTagName
        /\ FramesByTagName["c"] = FramesByTagName["a"]
        /\ FramesByTagName["a"] # 0

\* C9: after c = a.Clone(), no call on c (Update, SetTag, SetFrame, Restart,
\* Pause, Resume, Toggle, OnEnd) changes a's tag, frame index, accumulated
\* time, paused flag or callbacks, and no call on a changes c's; both keep
\* the same map of frames by tag name, which no call modifies.
C9_CloneIndependence == [][C9_Independent]_vars

\* The clone has been advanced, retagged and given a callback of its own,
\* and the source is still where it was when it was cloned.
C9_Witness ==
    /\ live["c"]
    /\ pc = "idle" /\ last = "Update" /\ call.anim = "c"
    /\ accumMillis["c"] > 0 /\ accumMillis["a"] = 0
    /\ currTag["c"] = "walk" /\ currTag["a"] = ""
    /\ CallbackFor("c", "") = "noop" /\ CallbackFor("a", "") = "nil"

\* C16: the Animation that Clone or NewFlyweightAnimation has just made is at
\* the source's tag and frame, holds no accumulated time and has a copy of
\* the source's callbacks it can use: OnEnd on it does not fail.
C16_CopyStartsAsSource ==
    /\ (last \in {"Clone", "NewFlyweightAnimation"}) =>
            /\ currTag["c"] = currTag["a"]
            /\ currFrame["c"] = currFrame["a"]
            /\ accumMillis["c"] = 0
            /\ callbacks["c"] # 0
            /\ CallbacksOf("c") = CallbacksOf("a")
    /\ (last = "OnEnd" /\ call.anim = "c") => pc # "panic"

\* C18: in every state that calls of Update, SetTag with a tag the map holds,
\* SetFrame, Restart, Pause, Resume, Toggle, OnEnd and Clone reach in any
\* order, calls made by callbacks included, the frame index of every
\* Animation is at least 0 and less than the length of its current tag's
\* frames, and no call has panicked.
C18_FrameInRange ==
    /\ pc # "panic"
    /\ \A x \in Anims : live[x] => InRange(x)

\* An Update of the clone has wrapped the empty tag and its callback has
\* called SetFrame(1) on the clone.
C18_Witness ==
    /\ pc = "idle" /\ last = "Update" /\ call.anim = "c"
    /\ ran = [tag |-> "", callback |-> "setFrame1"]
    /\ currFrame["c"] = 1
    /\ currTag["a"] = "walk"

====
